---- MODULE Spec2Model ----
(***************************************************************************)
(* InternalEventReader of crossterm (src/event/read.rs): a queue of        *)
(* decoded events, an optional event source and a buffer of events that    *)
(* the running poll skipped.  Events carry their arrival number `id` so    *)
(* that orderings can be stated; filters only look at `kind`.  On top of it *)
(* the cursor position query of src/cursor/sys/unix.rs, which writes a     *)
(* request to the terminal and waits for the reply on the reader.          *)
(***************************************************************************)
EXTENDS Integers, Sequences, FiniteSets, TLC

\* ------------------------------------------------------------------ bounds
MaxEvents == 3
MaxCalls == 3

\* ------------------------------------------------------------------ values
Kinds == {"Resize", "CursorPosition"}

\* Filter::eval of the two filters the reader is used with.
CursorPositionFilter == "CursorPositionFilter"
InternalEventFilter == "InternalEventFilter"
Filters == {CursorPositionFilter, InternalEventFilter}

eval(filter, event) ==
    IF filter = InternalEventFilter THEN TRUE ELSE event.kind = "CursorPosition"

\* Option<Duration>: None, Some(0) and Some(d) with d > 0.
Timeouts == {"None", "Zero", "Some"}

NoEvent == [id |-> 0, kind |-> "-", x |-> 0, y |-> 0]
NoError == [kind |-> "-", msg |-> "-"]

\* io::Error values: the reader's own error and what a source can raise.
Unavailable == [kind |-> "Other", msg |-> "Failed to initialize input reader"]
Interrupted == [kind |-> "Interrupted", msg |-> "source"]
SourceErrors == {[kind |-> "Other", msg |-> "source"], [kind |-> "BrokenPipe", msg |-> "source"]}
FakeError == [kind |-> "Other", msg |-> ""]

\* Values a call returns.
OkBool(b) == [tag |-> IF b THEN "OkTrue" ELSE "OkFalse", ev |-> NoEvent, err |-> NoError]
Err(e) == [tag |-> "Err", ev |-> NoEvent, err |-> e]
OkEvent(e) == [tag |-> "Event", ev |-> e, err |-> NoError]
Some(e) == [tag |-> "Some", ev |-> e, err |-> NoError]
None == [tag |-> "None", ev |-> NoEvent, err |-> NoError]

\* ------------------------------------------------------------------ helpers
RECURSIVE SeqsUpTo(_, _)
SeqsUpTo(S, n) ==
    IF n = 0 THEN {<<>>}
    ELSE LET shorter == SeqsUpTo(S, n - 1)
         IN shorter \cup {Append(s, x) : s \in {t \in shorter : Len(t) = n - 1}, x \in S}

\* The sequence of kinds ks as events numbered from+1, from+2, ..., each with
\* a payload (x, y) of its own: InternalEvent::CursorPosition(x, y), Resize(x, y).
Numbered(ks, from) ==
    [i \in 1..Len(ks) |->
        [id |-> from + i, kind |-> ks[i], x |-> 10 * (from + i), y |-> 20 * (from + i)]]

Range(s) == {s[i] : i \in 1..Len(s)}

VARIABLES
    events,          \* InternalEventReader.events
    skipped_events,  \* InternalEventReader.skipped_events
    source,          \* InternalEventReader.source and the state of that source
    pc,              \* "idle", "read" (top of read's loop) or "poll" (top of poll's loop)
    call,            \* the call in progress, or the last one: [op, filter, timeout]
    pre,             \* events and skipped_events when that call started
    touched,         \* whether that call has called the source's try_read
    got,             \* what the source's try_read returned last in the running poll
    arrived,         \* the events of the initial queue, then those the source yielded
    ret,             \* what the last call that returned has returned
    returned,        \* the events try_read and read have returned, in order
    log,             \* under a FakeSource: the calls that returned, in order
    polled,          \* the filter of the poll that returned Ok(true) just before
                     \* the call in progress started, or "-"
    raw,             \* whether the terminal is in raw mode (is_raw_mode_enabled)
    ppc,             \* where position() is: "idle", "write", "loop", "polling",
                     \* "reading" or "restore"
    qry              \* the position() in progress, or the last one

reader == <<events, skipped_events, source, pc, call, pre, touched, got, arrived,
            ret, returned, log, polled>>

vars == <<events, skipped_events, source, pc, call, pre, touched, got, arrived,
          ret, returned, log, polled, raw, ppc, qry>>

\* ------------------------------------------------------------------ source
\* source.kind: "absent" is source = None; "fake" is the tests' FakeSource;
\* "env" is a platform source, whose try_read may yield its next event,
\* time out or fail at any call.  source.events are the events it has not
\* yielded yet.  source.error and source.ctor: whether a FakeSource has an
\* error to raise, and whether it was made with one (FakeSource::new) or
\* without (FakeSource::with_events).

\* The value of got before the source's try_read is called.
NotCalled == [tag |-> "-", ev |-> NoEvent, err |-> NoError]

\* FakeSource::try_read: [ret, source after the call].
FakeTryRead(s) ==
    IF Len(s.events) = 1 /\ s.error
    THEN [ret |-> Err(FakeError), src |-> [s EXCEPT !.error = FALSE]]
    ELSE IF Len(s.events) > 0
    THEN [ret |-> Some(Head(s.events)), src |-> [s EXCEPT !.events = Tail(s.events)]]
    ELSE IF s.error
    THEN [ret |-> Err(FakeError), src |-> [s EXCEPT !.error = FALSE]]
    ELSE [ret |-> None, src |-> s]

\* PollTimeout::elapsed for a timeout, `late` standing for the clock having
\* passed a positive duration.
Elapsed(timeout, late) ==
    CASE timeout = "None" -> FALSE
      [] timeout = "Zero" -> TRUE
      [] OTHER -> late

\* ------------------------------------------------------------------ reader
\* The first event of q the filter accepts, as an index, or 0.
FirstMatch(q, filter) ==
    IF \E i \in 1..Len(q) : eval(filter, q[i])
    THEN CHOOSE i \in 1..Len(q) :
            eval(filter, q[i]) /\ \A j \in 1..(i - 1) : ~eval(filter, q[j])
    ELSE 0

\* try_read losing the events it has popped before the match.
TryReadQueueDrops(q, filter) ==
    LET i == FirstMatch(q, filter)
    IN IF i = 0
       THEN [result |-> None, events |-> <<>>]
       ELSE [result |-> Some(q[i]), events |-> SubSeq(q, i + 1, Len(q))]

\* try_read returning a copy of the match, which it leaves in the queue.
TryReadQueuePeeks(q, filter) ==
    LET i == FirstMatch(q, filter)
    IN [result |-> IF i = 0 THEN None ELSE Some(q[i]), events |-> q]

\* try_read pushing each popped event back to the front when it has scanned
\* the queue, which reverses them.
TryReadQueueReverses(q, filter) ==
    LET i == FirstMatch(q, filter)
        n == IF i = 0 THEN Len(q) ELSE i - 1
    IN [result |-> IF i = 0 THEN None ELSE Some(q[i]),
        events |-> SubSeq(q, i + 1, IF i = 0 THEN 0 ELSE Len(q)) \o [k \in 1..n |-> q[n + 1 - k]]]

\* InternalEventReader::try_read as a function of the queue:
\* [result, events after the call].
TryReadQueue(q, filter) ==
    LET i == FirstMatch(q, filter)
    IN IF i = 0
       THEN [result |-> None, events |-> q]
       ELSE [result |-> Some(q[i]),
             events |-> SubSeq(q, i + 1, Len(q)) \o SubSeq(q, 1, i - 1)]

\* The call in progress returns r (from pc "idle" the next call can start).
Return(r) ==
    /\ pc' = "idle"
    /\ ret' = r
    /\ returned' = IF r.tag \in {"Some", "Event"} THEN Append(returned, r.ev) ELSE returned
    /\ log' = IF source.kind = "fake"
              THEN Append(log, [op |-> call'.op, filter |-> call'.filter,
                                timeout |-> call'.timeout, ret |-> r])
              ELSE log

Continue(at) == pc' = at /\ UNCHANGED <<ret, returned, log>>

\* read without the `?` of line 113: it goes on whatever poll returns.
PollReturnIgnored(r) ==
    IF call'.op = "read" THEN Continue("read") ELSE Return(r)

\* poll returns r: to the caller, or into read's loop (line 113).
PollReturn(r) ==
    IF call'.op = "read" /\ r.tag # "Err" THEN Continue("read") ELSE Return(r)

\* poll taking a missing source for a source without events.
PollEnterFalseWithoutSource ==
    /\ UNCHANGED <<events, skipped_events, source, arrived>>
    /\ IF FirstMatch(events, call'.filter) # 0
       THEN PollReturn(OkBool(TRUE))
       ELSE IF source.kind = "absent"
       THEN PollReturn(OkBool(FALSE))
       ELSE Continue("poll")

\* poll looking for the source before it scans the queue.
PollEnterSourceFirst ==
    /\ UNCHANGED <<events, skipped_events, source, arrived>>
    /\ IF source.kind = "absent"
       THEN PollReturn(Err(Unavailable))
       ELSE IF FirstMatch(events, call'.filter) # 0
       THEN PollReturn(OkBool(TRUE))
       ELSE Continue("poll")

\* poll, lines 48-62: scan the queue, then look for the source.
PollEnter ==
    /\ UNCHANGED <<events, skipped_events, source, arrived>>
    /\ IF FirstMatch(events, call'.filter) # 0
       THEN PollReturn(OkBool(TRUE))
       ELSE IF source.kind = "absent"
       THEN PollReturn(Err(Unavailable))
       ELSE Continue("poll")

\* poll taking every error of the source for an interruption.
OnSourceErrorSwallows(e) == OkBool(FALSE)

\* poll without the test for an interruption.
OnSourceErrorRaises(e) == Err(e)

\* poll, lines 77-83: what poll returns when the source's try_read fails with e.
OnSourceError(e) == IF e.kind = "Interrupted" THEN OkBool(FALSE) ELSE Err(e)

\* poll clearing the skip buffer instead of draining it into the queue.
MergedLosesSkipped(queue, skipped, matched, ev) ==
    IF matched THEN <<ev>> \o queue ELSE queue

\* poll returning Ok(true) without pushing the matching event to the queue.
MergedDropsMatch(queue, skipped, matched, ev) == queue \o skipped

\* poll pushing the matching event to the back of the queue.
MergedPushesBack(queue, skipped, matched, ev) ==
    IF matched THEN queue \o skipped \o <<ev>> ELSE queue \o skipped

\* poll, lines 87-91: the queue when the loop ends, the skipped events appended
\* and the matching event, if there is one, pushed to the front.
Merged(queue, skipped, matched, ev) ==
    IF matched THEN <<ev>> \o queue \o skipped ELSE queue \o skipped

\* poll, lines 66-96: one turn of the loop, the source's try_read having
\* returned r and the deadline having passed or not.
PollLoop(r, expired) ==
    IF r.tag = "Err"
    THEN /\ UNCHANGED <<events, skipped_events>>
         /\ PollReturn(OnSourceError(r.err))
    ELSE LET matched == r.tag = "Some" /\ eval(call.filter, r.ev)
             skipped == IF r.tag = "Some" /\ ~matched
                        THEN Append(skipped_events, r.ev)
                        ELSE skipped_events
         IN IF expired \/ matched
            THEN /\ skipped_events' = <<>>
                 /\ events' = Merged(events, skipped, matched, r.ev)
                 /\ PollReturn(OkBool(matched))
            ELSE /\ skipped_events' = skipped
                 /\ UNCHANGED events
                 /\ Continue("poll")

\* A call can start when none is running; the calls on a FakeSource are
\* logged, and are scripts of MaxCalls calls at most.
CanCall == pc = "idle" /\ Len(log) < MaxCalls

Begin(op, filter, timeout) ==
    /\ CanCall
    /\ call' = [op |-> op, filter |-> filter, timeout |-> timeout]
    /\ pre' = [events |-> events, skipped_events |-> skipped_events, arrived |-> Len(arrived)]
    /\ touched' = FALSE
    /\ got' = NotCalled
    /\ polled' = IF call.op = "poll" /\ ret = OkBool(TRUE) THEN call.filter ELSE "-"

\* A call of the reader from outside position(): position() holds the lock
\* of the reader while it runs.
Direct == ppc = "idle" /\ UNCHANGED <<raw, ppc, qry>>

\* ------------------------------------------------------------------ actions
try_read ==
    \E filter \in Filters :
        /\ Direct
        /\ Begin("try_read", filter, "None")
        /\ LET r == TryReadQueue(events, filter)
           IN events' = r.events /\ Return(r.result)
        /\ UNCHANGED <<skipped_events, source, arrived>>

poll ==
    \E filter \in Filters, timeout \in Timeouts :
        /\ Direct
        /\ Begin("poll", filter, timeout)
        /\ PollEnter

read ==
    \E filter \in Filters :
        /\ Direct
        /\ Begin("read", filter, "None")
        /\ Continue("read")
        /\ UNCHANGED <<events, skipped_events, source, arrived>>

\* read, lines 108-114: one turn of the loop up to the wait in poll.
ReadLoop ==
    /\ pc = "read"
    /\ UNCHANGED <<call, pre, touched, polled, raw, ppc, qry>>
    /\ LET r == TryReadQueue(events, call.filter)
       IN IF r.result.tag = "Some"
          THEN /\ events' = r.events
               /\ UNCHANGED <<skipped_events, source, got, arrived>>
               /\ Return(OkEvent(r.result.ev))
          ELSE got' = NotCalled /\ PollEnter

\* The running poll calls the source's try_read (line 67), which returns r.
SourceTryRead(r) ==
    /\ pc = "poll"
    /\ touched' = TRUE
    /\ got' = r
    /\ arrived' = IF r.tag = "Some" THEN Append(arrived, r.ev) ELSE arrived
    /\ UNCHANGED <<call, pre, polled, raw, ppc, qry>>
    /\ \E late \in BOOLEAN : PollLoop(r, Elapsed(call.timeout, late))

\* The platform source yields its next event.
SourceEvent ==
    /\ source.kind = "env" /\ Len(source.events) > 0
    /\ source' = [source EXCEPT !.events = Tail(source.events)]
    /\ SourceTryRead(Some(Head(source.events)))

\* The platform source has nothing within the time it was given.
SourceTimeout ==
    /\ source.kind = "env"
    /\ UNCHANGED source
    /\ SourceTryRead(None)

\* The waker, or a signal, interrupts the source's wait.
SourceInterrupted ==
    /\ source.kind = "env"
    /\ UNCHANGED source
    /\ SourceTryRead(Err(Interrupted))

SourceError ==
    /\ source.kind = "env"
    /\ UNCHANGED source
    /\ \E e \in SourceErrors : SourceTryRead(Err(e))

FakeSource ==
    /\ source.kind = "fake"
    /\ LET r == FakeTryRead(source)
       IN source' = r.src /\ SourceTryRead(r.ret)

\* ------------------------------------------------------------------ cursor position
\* io::Error values of the query: the timeout of read_position_raw, a failure
\* of the write or flush of the request, a failure of a raw mode switch.
CursorTimeout ==
    [kind |-> "Other", msg |-> "The cursor position could not be read within a normal duration"]
WriteError == [kind |-> "BrokenPipe", msg |-> "stdout"]
RawModeError == [kind |-> "Other", msg |-> "raw mode"]

\* io::Result<(u16, u16)>.
OkPosition(x, y) == [tag |-> "Ok", x |-> x, y |-> y, err |-> NoError]
ErrPosition(e) == [tag |-> "Err", x |-> 0, y |-> 0, err |-> e]
NoResult == [tag |-> "-", x |-> 0, y |-> 0, err |-> NoError]

\* enable_raw_mode and disable_raw_mode: the mode after a call that succeeds
\* or fails.
EnableRawMode(mode, ok) == IF ok THEN TRUE ELSE mode
DisableRawMode(mode, ok) == IF ok THEN FALSE ELSE mode

\* A position() that has just been called:
\*   raw0     raw mode at the call       via     the function that runs the query
\*   written  request written, flushed   ignored an error of poll or read was ignored
\*   reply    the event the last poll got from the source when it returned Ok(true)
\*   timed    the last poll returned Ok(false)
\*   query    what read_position_raw returned
\*   enables, disables   calls of enable_raw_mode, disable_raw_mode
\*   failed   the raw mode switch that failed
\*   result   what position() returned
NoQuery ==
    [raw0 |-> FALSE, via |-> "-", written |-> FALSE, ignored |-> FALSE, reply |-> NoEvent,
     timed |-> FALSE, query |-> NoResult, enables |-> 0, disables |-> 0, failed |-> "-",
     result |-> NoResult]

\* position, line 22: the terminal is in raw mode, read_position_raw runs.
EnterReadPositionRaw ==
    /\ UNCHANGED raw
    /\ ppc' = "write"
    /\ qry' = [NoQuery EXCEPT !.raw0 = raw, !.via = "read_position_raw"]

\* position, line 24, and read_position, line 29: enable_raw_mode()?.
EnterReadPosition ==
    \E ok \in BOOLEAN :
        /\ raw' = EnableRawMode(raw, ok)
        /\ ppc' = IF ok THEN "write" ELSE "idle"
        /\ qry' = [NoQuery EXCEPT !.raw0 = raw, !.via = "read_position", !.enables = 1,
                                  !.failed = IF ok THEN "-" ELSE "enable",
                                  !.result = IF ok THEN NoResult ELSE ErrPosition(RawModeError)]

\* position switching raw mode on and off whatever the mode is.
positionAlwaysSwitches ==
    /\ pc = "idle" /\ ppc = "idle"
    /\ UNCHANGED reader
    /\ EnterReadPosition

position ==
    /\ pc = "idle" /\ ppc = "idle"
    /\ UNCHANGED reader
    /\ IF raw THEN EnterReadPositionRaw ELSE EnterReadPosition

\* read_position_raw returns r, q being the record of the call: to position,
\* which returns it, or to read_position, which has raw mode to restore.
QueryReturns(q, r) ==
    IF q.via = "read_position_raw"
    THEN ppc' = "idle" /\ qry' = [q EXCEPT !.query = r, !.result = r]
    ELSE ppc' = "restore" /\ qry' = [q EXCEPT !.query = r]

\* read_position_raw, lines 36-39: write the request and flush.
WriteRequest ==
    /\ ppc = "write"
    /\ UNCHANGED <<reader, raw>>
    /\ \E ok \in BOOLEAN :
          IF ok
          THEN ppc' = "loop" /\ qry' = [qry EXCEPT !.written = TRUE]
          ELSE QueryReturns(qry, ErrPosition(WriteError))

\* read_position_raw, line 42: poll for the reply for two seconds.
PollReply ==
    /\ ppc = "loop"
    /\ Begin("poll", CursorPositionFilter, "Some")
    /\ PollEnter
    /\ ppc' = "polling"
    /\ UNCHANGED <<raw, qry>>

\* The wait loop returning the error of a poll.
AfterPollRaises ==
    /\ ppc = "polling" /\ pc = "idle"
    /\ UNCHANGED raw
    /\ IF ret = OkBool(TRUE)
       THEN /\ Begin("read", CursorPositionFilter, "None")
            /\ Continue("read")
            /\ UNCHANGED <<events, skipped_events, source, arrived>>
            /\ ppc' = "reading"
            /\ qry' = [qry EXCEPT !.reply = IF touched THEN got.ev ELSE NoEvent]
       ELSE /\ UNCHANGED reader
            /\ IF ret = OkBool(FALSE)
               THEN QueryReturns([qry EXCEPT !.timed = TRUE], ErrPosition(CursorTimeout))
               ELSE QueryReturns(qry, ErrPosition(ret.err))

\* read_position_raw, lines 43-57: the poll has returned; Ok(true) calls
\* read, Ok(false) ends the query, an error goes round the loop.
AfterPoll ==
    /\ ppc = "polling" /\ pc = "idle"
    /\ UNCHANGED raw
    /\ IF ret = OkBool(TRUE)
       THEN /\ Begin("read", CursorPositionFilter, "None")
            /\ Continue("read")
            /\ UNCHANGED <<events, skipped_events, source, arrived>>
            /\ ppc' = "reading"
            /\ qry' = [qry EXCEPT !.reply = IF touched THEN got.ev ELSE NoEvent]
       ELSE /\ UNCHANGED reader
            /\ IF ret = OkBool(FALSE)
               THEN QueryReturns([qry EXCEPT !.timed = TRUE], ErrPosition(CursorTimeout))
               ELSE ppc' = "loop" /\ qry' = [qry EXCEPT !.ignored = TRUE]

\* read_position_raw, lines 44-48: the read has returned; a cursor position
\* ends the query, anything else goes round the loop.
AfterRead ==
    /\ ppc = "reading" /\ pc = "idle"
    /\ UNCHANGED <<reader, raw>>
    /\ IF ret.tag = "Event" /\ ret.ev.kind = "CursorPosition"
       THEN QueryReturns(qry, OkPosition(ret.ev.x, ret.ev.y))
       ELSE ppc' = "loop" /\ qry' = [qry EXCEPT !.ignored = TRUE]

\* read_position with `let pos = read_position_raw()?;`: raw mode is left
\* on when the query has failed.
RestoreOnlyOnSuccess ==
    /\ ppc = "restore"
    /\ UNCHANGED reader
    /\ ppc' = "idle"
    /\ IF qry.query.tag = "Err"
       THEN UNCHANGED raw /\ qry' = [qry EXCEPT !.result = qry.query]
       ELSE \E ok \in BOOLEAN :
               /\ raw' = DisableRawMode(raw, ok)
               /\ qry' = [qry EXCEPT !.disables = 1,
                                     !.failed = IF ok THEN "-" ELSE "disable",
                                     !.result = IF ok THEN qry.query
                                                ELSE ErrPosition(RawModeError)]

\* read_position, lines 31-32: disable_raw_mode()?; pos
Restore ==
    /\ ppc = "restore"
    /\ UNCHANGED reader
    /\ ppc' = "idle"
    /\ \E ok \in BOOLEAN :
          /\ raw' = DisableRawMode(raw, ok)
          /\ qry' = [qry EXCEPT !.disables = 1,
                                !.failed = IF ok THEN "-" ELSE "disable",
                                !.result = IF ok THEN qry.query
                                           ELSE ErrPosition(RawModeError)]

\* ------------------------------------------------------------------ specification
\* The events of a run, numbered in the order they arrive.
Arrivals == {Numbered(ks, 0) : ks \in SeqsUpTo(Kinds, MaxEvents)}

\* The first n of them are in the queue at the start, the source has the rest.
InitReader(n, all, kind, error) ==
    /\ events = SubSeq(all, 1, n)
    /\ source = [kind |-> kind, events |-> SubSeq(all, n + 1, Len(all)), error |-> error,
                 ctor |-> IF kind # "fake" THEN "-" ELSE IF error THEN "new" ELSE "with_events"]
    /\ skipped_events = <<>>
    /\ pc = "idle"
    /\ call = [op |-> "-", filter |-> InternalEventFilter, timeout |-> "None"]
    /\ pre = [events |-> events, skipped_events |-> <<>>, arrived |-> n]
    /\ touched = FALSE
    /\ got = NotCalled
    /\ arrived = events
    /\ ret = None
    /\ returned = <<>>
    /\ log = <<>>
    /\ polled = "-"
    /\ ppc = "idle"
    /\ qry = NoQuery

\* A reader without a source, or on a platform source.
Init ==
    /\ raw = FALSE
    /\ \E all \in Arrivals :
          \/ InitReader(Len(all), all, "absent", FALSE)
          \/ \E n \in 0..Len(all) : InitReader(n, all, "env", FALSE)

Next ==
    \/ try_read
    \/ poll
    \/ read
    \/ ReadLoop
    \/ SourceEvent
    \/ SourceTimeout
    \/ SourceInterrupted
    \/ SourceError

Spec == Init /\ [][Next]_vars

\* The readers of the tests on a FakeSource: an empty queue, and a source
\* made by FakeSource::with_events or FakeSource::new.
InitFake ==
    /\ raw = FALSE
    /\ \E all \in Arrivals, error \in BOOLEAN : InitReader(0, all, "fake", error)

NextFake ==
    \/ try_read
    \/ poll
    \/ read
    \/ ReadLoop
    \/ FakeSource

SpecFake == InitFake /\ [][NextFake]_vars

\* position() on a reader without a source or on a platform source, the
\* terminal in raw mode or not, any events in the queue at the first call.
InitPosition ==
    /\ raw \in BOOLEAN
    /\ \E all \in Arrivals :
          \/ InitReader(Len(all), all, "absent", FALSE)
          \/ \E n \in 0..Len(all) : InitReader(n, all, "env", FALSE)

NextPosition ==
    \/ position
    \/ WriteRequest
    \/ PollReply
    \/ AfterPoll
    \/ AfterRead
    \/ Restore
    \/ ReadLoop
    \/ SourceEvent
    \/ SourceTimeout
    \/ SourceInterrupted
    \/ SourceError

SpecPosition == InitPosition /\ [][NextPosition]_vars

\* A source that yields no event: the reader has none, or every try_read of
\* the platform source is interrupted or fails.  A call that has started
\* keeps running: the thread is not held back other than inside the source,
\* whose try_read returns.
InitFailing ==
    /\ raw \in BOOLEAN
    /\ \E all \in Arrivals, kind \in {"absent", "env"} :
          InitReader(Len(all), all, kind, FALSE)

Running ==
    \/ ReadLoop
    \/ SourceInterrupted
    \/ SourceError
    \/ WriteRequest
    \/ PollReply
    \/ AfterPoll
    \/ AfterRead
    \/ Restore

NextFailing ==
    \/ try_read
    \/ poll
    \/ read
    \/ position
    \/ Running

SpecFailing == InitFailing /\ [][NextFailing]_vars /\ WF_vars(Running)

\* ------------------------------------------------------------------ properties
\* A call of op has returned and no other has started: ret is what it returned,
\* pre what the reader held when it started.
Returned(op) == pc = "idle" /\ call.op = op

Held == events \o skipped_events

\* q without its i-th element.
RemoveAt(q, i) == SubSeq(q, 1, i - 1) \o SubSeq(q, i + 1, Len(q))

Count(q, e) == Cardinality({i \in 1..Len(q) : q[i] = e})

\* C1: a try_read whose filter matches a queued event returns the first
\* matching event, and the queue is then the old queue without that event,
\* the others in their old order.
C1_TryReadKeepsOrder ==
    (Returned("try_read") /\ FirstMatch(pre.events, call.filter) # 0) =>
        LET i == FirstMatch(pre.events, call.filter)
        IN /\ ret = Some(pre.events[i])
           /\ events = RemoveAt(pre.events, i)

\* C2: try_read and read never return an event while the reader holds an
\* event that arrived earlier and matches the filter of the call.
C2_NoOvertaking ==
    (pc = "idle" /\ call.op \in {"try_read", "read"} /\ ret.tag \in {"Some", "Event"}) =>
        \A i \in 1..Len(Held) :
            eval(call.filter, Held[i]) => Held[i].id > ret.ev.id

\* C3: the events in the queue and in the skip buffer together with the
\* events returned so far are, as a multiset, the events of the initial queue
\* and those the source has yielded.
C3_NoLossNoDuplicate ==
    \A e \in Range(arrived) \cup Range(Held) \cup Range(returned) :
        Count(Held, e) + Count(returned, e) = Count(arrived, e)

\* C3's case: an event was returned, the source has yielded another one and
\* then failed, which left that one in the skip buffer.
C3_Witness ==
    /\ pc = "idle" /\ ret.tag = "Err" /\ touched
    /\ skipped_events # <<>> /\ returned # <<>> /\ events # <<>>
    /\ Len(arrived) > pre.arrived

\* The events of the run in the order they arrive: those that have arrived
\* and those the source still has.
Stream == arrived \o source.events

\* The i-th call that returned was read(filter).
IsRead(i, filter) == log[i].op = "read" /\ log[i].filter = filter

\* The events the calls i with lo <= i <= hi have returned, in order.
RECURSIVE EventsOf(_, _)
EventsOf(lo, hi) ==
    IF hi < lo THEN <<>>
    ELSE IF log[hi].ret.tag \in {"Some", "Event"}
    THEN Append(EventsOf(lo, hi - 1), log[hi].ret.ev)
    ELSE EventsOf(lo, hi - 1)

IsPrefix(p, q) == Len(p) <= Len(q) /\ p = SubSeq(q, 1, Len(p))

C5_ReadsInSourceOrder ==
    source.ctor = "with_events" =>
        \A i \in 1..Len(log) :
            (\A j \in 1..(i - 1) : IsRead(j, InternalEventFilter)) =>
                /\ IsRead(i, InternalEventFilter) =>
                        i <= Len(Stream) /\ log[i].ret = OkEvent(Stream[i])
                /\ (i = Len(Stream) + 1 /\ log[i].op = "poll" /\ log[i].timeout = "Zero") =>
                        log[i].ret = OkBool(FALSE)

\* C5's case: two reads have returned the two events of the source, and a
\* poll with timeout zero has returned Ok(false).
C5_Witness ==
    /\ source.ctor = "with_events" /\ Len(Stream) = 2 /\ Len(log) = 3
    /\ IsRead(1, InternalEventFilter) /\ log[1].ret = OkEvent(Stream[1])
    /\ IsRead(2, InternalEventFilter) /\ log[2].ret = OkEvent(Stream[2])
    /\ log[3].op = "poll" /\ log[3].timeout = "Zero" /\ log[3].ret = OkBool(FALSE)

Errors == {i \in 1..Len(log) : log[i].ret.tag = "Err"}

\* C6: a source that raises its error once makes one call fail, with that
\* error, when it raises it, and no other call; reads with the always-matching
\* filter return, before and after the failed one, the events of the source in
\* their order, none skipped; a poll with that filter right after the failed
\* read finds the next event of the source.
C6_ReadContinuesAfterError ==
    source.ctor = "new" =>
        /\ Cardinality(Errors) = IF source.error THEN 0 ELSE 1
        /\ \A i \in Errors : log[i].ret = Err(FakeError)
        /\ \A i \in 1..Len(log) :
              (\A j \in 1..(i - 1) : IsRead(j, InternalEventFilter)) =>
                  LET before == EventsOf(1, i - 1)
                  IN /\ before = SubSeq(Stream, 1, Len(before))
                     /\ (IsRead(i, InternalEventFilter) /\ i - 1 \in Errors) =>
                            /\ Len(before) < Len(Stream)
                            /\ log[i].ret = OkEvent(Stream[Len(before) + 1])
                     /\ ( /\ log[i].op = "poll" /\ log[i].filter = InternalEventFilter
                          /\ i - 1 \in Errors /\ Len(before) < Len(Stream) ) =>
                            log[i].ret = OkBool(TRUE)

\* C6's case: a read has returned the first event, the next read has failed
\* with the error of the source, and a third read has returned the second event.
C6_Witness ==
    /\ source.ctor = "new" /\ Len(Stream) = 2 /\ Len(log) = 3
    /\ \A i \in 1..3 : IsRead(i, InternalEventFilter)
    /\ log[1].ret = OkEvent(Stream[1])
    /\ log[2].ret = Err(FakeError)
    /\ log[3].ret = OkEvent(Stream[2])

\* C7: without a source, a poll whose filter matches no queued event returns
\* the reader's error whatever the timeout, never waits, and leaves the queue
\* and the skip buffer as they were.
C7_PollFailsWithoutSource ==
    source.kind = "absent" =>
        /\ pc # "poll"
        /\ (call.op = "poll" /\ FirstMatch(pre.events, call.filter) = 0) =>
              /\ pc = "idle"
              /\ ret = Err(Unavailable)
              /\ events = pre.events
              /\ skipped_events = pre.skipped_events

\* C7's case: without a source, a poll with a positive timeout on a queue of
\* events its filter does not match has returned the error.
C7_Witness ==
    /\ source.kind = "absent" /\ Returned("poll") /\ call.timeout = "Some"
    /\ pre.events # <<>> /\ FirstMatch(pre.events, call.filter) = 0
    /\ ret = Err(Unavailable)

\* C8: a poll whose filter matches a queued event returns Ok(true) at once,
\* whatever the timeout and the source, without a call of the source's
\* try_read, and leaves the queue and the skip buffer as they were.
C8_PollFindsQueuedEvent ==
    (call.op = "poll" /\ FirstMatch(pre.events, call.filter) # 0) =>
        /\ pc = "idle"
        /\ ret = OkBool(TRUE)
        /\ ~touched
        /\ events = pre.events
        /\ skipped_events = pre.skipped_events

\* C8's case: without a source, a poll with timeout zero has found its match
\* behind an event its filter does not match.
C8_Witness ==
    /\ source.kind = "absent" /\ Returned("poll") /\ call.timeout = "Zero"
    /\ FirstMatch(pre.events, call.filter) > 1
    /\ ret = OkBool(TRUE)

\* C9: when the source's try_read fails with an interruption, the running
\* poll returns Ok(false) at once (to its caller, or into the loop of read),
\* whatever the timeout, and no call ever returns an interruption as an error.
C9_InterruptedIsOkFalse ==
    /\ ret.tag = "Err" => ret.err.kind # "Interrupted"
    /\ got = Err(Interrupted) =>
          IF call.op = "poll" THEN pc = "idle" /\ ret = OkBool(FALSE) ELSE pc = "read"

\* C9's case: a poll without timeout that had skipped an event was interrupted
\* and has returned Ok(false).
C9_Witness ==
    /\ Returned("poll") /\ call.timeout = "None" /\ got = Err(Interrupted)
    /\ Len(arrived) > pre.arrived
    /\ ret = OkBool(FALSE)

\* C10: when the source's try_read fails with another error, poll returns
\* that error at once, the queue is as it was when poll was called, and the
\* skip buffer holds the events this call has skipped and no others.
C10_ErrorKeepsOnlyThisCallsSkips ==
    (call.op = "poll" /\ got.tag = "Err" /\ got.err.kind # "Interrupted") =>
        /\ pc = "idle"
        /\ ret = Err(got.err)
        /\ events = pre.events
        /\ skipped_events = SubSeq(arrived, pre.arrived + 1, Len(arrived))

\* A position() has returned and no other has started: qry is its record.
PositionReturned == ppc = "idle" /\ qry.via # "-"

\* C11: when the source has yielded a cursor reply to a poll of position()
\* and no raw mode switch has failed, position() has returned Ok((x, y)) of
\* that reply, the reply is the last event read and is no longer held, raw
\* mode is as it was at the call, and it was switched on and off once if it
\* was off, never if it was on.
C11_ReplyIsReturned ==
    (PositionReturned /\ qry.reply # NoEvent /\ qry.failed = "-") =>
        /\ qry.result = OkPosition(qry.reply.x, qry.reply.y)
        /\ returned # <<>> /\ returned[Len(returned)] = qry.reply
        /\ qry.reply \notin Range(Held)
        /\ raw = qry.raw0
        /\ qry.enables = (IF qry.raw0 THEN 0 ELSE 1)
        /\ qry.disables = qry.enables

\* C11's case: position() was called with raw mode off, a poll that failed
\* was followed by one that got the reply from the source, and position() has
\* returned its coordinates with raw mode off again.
C11_Witness ==
    /\ PositionReturned /\ qry.reply # NoEvent /\ qry.failed = "-"
    /\ ~qry.raw0 /\ ~raw /\ qry.result.tag = "Ok" /\ qry.ignored

\* C12: when a poll of position() has returned Ok(false) and no raw mode
\* switch has failed, position() has returned the cursor timeout error and
\* raw mode is as it was at the call; whenever the query has failed,
\* disable_raw_mode was called exactly if position() had called
\* enable_raw_mode.
C12_TimeoutRestoresRawMode ==
    /\ (PositionReturned /\ qry.timed /\ qry.failed = "-") =>
          /\ qry.result = ErrPosition(CursorTimeout)
          /\ raw = qry.raw0
          /\ qry.enables = (IF qry.raw0 THEN 0 ELSE 1)
    /\ (PositionReturned /\ qry.query.tag = "Err") => qry.disables = qry.enables

\* C12's case: position() was called with raw mode off, its poll returned
\* Ok(false) with the source polled, and position() has returned the timeout
\* error with raw mode off again.
C12_Witness ==
    /\ PositionReturned /\ qry.timed /\ qry.failed = "-" /\ touched
    /\ ~qry.raw0 /\ ~raw /\ qry.disables = 1
    /\ qry.result = ErrPosition(CursorTimeout)

\* C13: when the query has failed and disable_raw_mode has failed after it,
\* position() has returned the error of the query.
C13_QueryFailureIsReported ==
    (PositionReturned /\ qry.query.tag = "Err" /\ qry.failed = "disable") =>
        qry.result = qry.query

\* C14: a try_read whose filter matches no queued event returns None, leaves
\* the queue and the skip buffer as they were and does not call the source,
\* each time it is called.
C14_TryReadWithoutMatchIsNoOp ==
    (call.op = "try_read" /\ FirstMatch(pre.events, call.filter) = 0) =>
        /\ pc = "idle"
        /\ ret = None
        /\ events = pre.events
        /\ skipped_events = pre.skipped_events
        /\ ~touched /\ Len(arrived) = pre.arrived

\* C14's case: a try_read has scanned a queue of two events or more, none of
\* which its filter matches, and has returned None.
C14_Witness ==
    /\ Returned("try_read") /\ Len(pre.events) >= 2
    /\ FirstMatch(pre.events, call.filter) = 0
    /\ ret = None /\ returned = <<>> /\ events = arrived

\* C16: when poll, try_read or read has returned, the skip buffer is empty:
\* every event the reader holds is in the event queue.
C16_SkipBufferEmptyAtReturn ==
    pc = "idle" => skipped_events = <<>>

\* C17: when poll has returned Ok(true), the first event of the queue matches
\* the filter.
C17_MatchAtFront ==
    (Returned("poll") /\ ret = OkBool(TRUE)) =>
        events # <<>> /\ eval(call.filter, events[1])

\* C17 as the code has it: when poll has returned Ok(true), an event of the
\* queue matches the filter; when poll has got it from the source, it is the
\* first event of the queue.
C17_MatchInQueue ==
    (Returned("poll") /\ ret = OkBool(TRUE)) =>
        /\ FirstMatch(events, call.filter) # 0
        /\ touched => (got.tag = "Some" /\ events[1] = got.ev /\ eval(call.filter, events[1]))
        /\ ~touched => events = pre.events

\* C17's case: poll has skipped an event, has got a matching one from the
\* source and has returned Ok(true) on a queue that held other events.
C17_Witness ==
    /\ Returned("poll") /\ ret = OkBool(TRUE) /\ touched
    /\ pre.events # <<>> /\ Len(arrived) > pre.arrived + 1

\* C18: a try_read or a read that starts right after a poll with the same
\* filter has returned Ok(true) returns an event the filter matches, without
\* calling the source and without waiting in poll.
C18_ReadAfterPollTrue ==
    (polled # "-" /\ call.filter = polled /\ call.op \in {"try_read", "read"}) =>
        /\ ~touched /\ pc # "poll"
        /\ Len(arrived) = pre.arrived
        /\ FirstMatch(pre.events, call.filter) # 0
        /\ pc = "idle" =>
              /\ ret.tag = (IF call.op = "read" THEN "Event" ELSE "Some")
              /\ ret.ev = pre.events[FirstMatch(pre.events, call.filter)]
              /\ eval(call.filter, ret.ev)

\* C18's case: a read with the cursor filter, started right after a poll with
\* that filter returned Ok(true), has returned while another event is queued.
C18_Witness ==
    /\ Returned("read") /\ polled = CursorPositionFilter /\ call.filter = polled
    /\ ret.tag = "Event" /\ events # <<>>

C20_PositionReturns == (ppc # "idle") ~> (ppc = "idle")

\* C19: every poll of the wait loop has the two second timeout; once the
\* request is written, the query ends with an error only when a poll has
\* returned Ok(false), and the error is the cursor timeout; the call of the
\* reader that the loop made last has then not returned an error, and so has
\* position() unless a raw mode switch failed.
C19_OnlyTimeoutEndsQuery ==
    /\ ppc = "polling" =>
          call = [op |-> "poll", filter |-> CursorPositionFilter, timeout |-> "Some"]
    /\ (qry.written /\ qry.query.tag # "-") => ret.tag \in {"OkFalse", "Event"}
    /\ (qry.written /\ qry.query.tag = "Err") =>
          /\ qry.query = ErrPosition(CursorTimeout)
          /\ qry.timed /\ call.op = "poll" /\ ret = OkBool(FALSE)
    /\ (PositionReturned /\ qry.written /\ qry.result.tag = "Err" /\ qry.failed = "-") =>
          qry.result = ErrPosition(CursorTimeout) /\ qry.timed

\* C19's case: a poll of the wait loop returned an error, the loop polled
\* again, and the query has ended with the reply the source yielded then.
C19_Witness ==
    /\ qry.ignored /\ qry.query.tag = "Ok" /\ qry.reply # NoEvent
    /\ source.kind = "env"

====
